---- MODULE Spec2Model ----
(***************************************************************************)
(* Model of the Indeed job scraper (scraper.py) and of the dashboard's     *)
(* reader of the tracker (app.py).                                         *)
(*                                                                         *)
(* A DataFrame is a sequence of rows; a row is a record whose fields are   *)
(* the seven tracker columns.  A cell is a text (a TLA+ string) or NaN.    *)
(* tracker.csv is modelled by its content: absent, empty (zero bytes),     *)
(* unparseable, or a header followed by rows of texts.                     *)
(***************************************************************************)
EXTENDS Integers, Sequences, FiniteSets, TLC

(***************************************************************************)
(* Bounds of the model.  The source has six search queries and main() asks *)
(* for five pages per query; the model keeps the loops and shortens them.  *)
(***************************************************************************)
NumQueries == 2
MaxPages == 2
MaxRuns == 2
MaxEditRow == 2
MaxParseCards == 2
MaxSuffix == 15
MaxStarts == 3

(***************************************************************************)
(* Program constants.                                                      *)
(***************************************************************************)
PageSize == 10
RateLimitDelay == 2
StartupNameLen == 15

(***************************************************************************)
(* Values that are not texts.  NoElem is Python's None returned by         *)
(* card.find; NaN is the float nan pandas puts in a missing cell.  Neither *)
(* is in the universe of texts the model draws card fields from.           *)
(***************************************************************************)
NoElem == "<None>"
NaN == "<nan>"

(***************************************************************************)
(* String helpers: str.lower, the `in` substring test, str.replace('new',  *)
(* '') and str.strip.                                                      *)
(***************************************************************************)
UpperCase == "ABCDEFGHIJKLMNOPQRSTUVWXYZ"
LowerCase == "abcdefghijklmnopqrstuvwxyz"

LowerChar(c) ==
    IF \E i \in 1..Len(UpperCase) : SubSeq(UpperCase, i, i) = c
    THEN LET i == CHOOSE j \in 1..Len(UpperCase) : SubSeq(UpperCase, j, j) = c
         IN SubSeq(LowerCase, i, i)
    ELSE c

\* str.lower()
Lower(s) ==
    LET lowered[i \in 0..Len(s)] ==
            IF i = 0 THEN "" ELSE lowered[i - 1] \o LowerChar(SubSeq(s, i, i))
    IN lowered[Len(s)]

\* kw in s
Contains(s, kw) ==
    \E i \in 1..(Len(s) - Len(kw) + 1) : SubSeq(s, i, i + Len(kw) - 1) = kw

\* s.replace('new', ''): rest[i] is the text from position i on, with every
\* occurrence of 'new' found from the left taken out
ReplaceNew(s) ==
    LET rest[i \in 1..(Len(s) + 1)] ==
            IF i > Len(s) THEN ""
            ELSE IF i + 2 <= Len(s) /\ SubSeq(s, i, i + 2) = "new"
            THEN rest[i + 3]
            ELSE SubSeq(s, i, i) \o rest[i + 1]
    IN rest[1]

\* s.strip(): from the first to the last character that is not a blank
Strip(s) ==
    LET solid == { i \in 1..Len(s) : SubSeq(s, i, i) # " " }
    IN IF solid = { } THEN ""
       ELSE SubSeq(s, CHOOSE i \in solid : \A j \in solid : i <= j,
                      CHOOSE i \in solid : \A j \in solid : j <= i)

(***************************************************************************)
(* _infer_company_type                                                     *)
(***************************************************************************)
mnc_keywords ==
    << "microsoft", "google", "amazon", "accenture", "tcs", "infosys",
       "wipro", "cognizant", "ibm", "oracle", "sap", "deloitte",
       "pwc", "ey", "kpmg", "capgemini", "tech mahindra", "hcl" >>

\* mutant of InferCompanyType: the length test before the keyword loop
InferCompanyType_LengthFirst(company_name) ==
    LET company_lower == Lower(company_name)
    IN IF Len(company_name) < StartupNameLen THEN "Startup"
       ELSE IF \E k \in 1..Len(mnc_keywords) :
                   Contains(company_lower, mnc_keywords[k])
       THEN "MNC"
       ELSE "Mid-size"

InferCompanyType(company_name) ==
    LET company_lower == Lower(company_name)
    IN IF \E k \in 1..Len(mnc_keywords) : Contains(company_lower, mnc_keywords[k])
       THEN "MNC"
       ELSE IF Len(company_name) < StartupNameLen THEN "Startup"
       ELSE "Mid-size"

(***************************************************************************)
(* Dates: datetime.now().strftime('%Y-%m-%d') on day number d.             *)
(***************************************************************************)
DateOf(d) == "2024-01-0" \o ToString(d)

(***************************************************************************)
(* _parse_job_cards.  A card is what the three lookups of the loop body    *)
(* find in it: for each of title, company and location either the text of  *)
(* the first matching element (get_text(strip=True)) or NoElem, and        *)
(* whether handling the card raises inside the try block.                  *)
(***************************************************************************)
Card(t, c, l, r) == [title |-> t, company |-> c, location |-> l, raises |-> r]

CardTitle(card) ==
    IF card.title # NoElem THEN Strip(ReplaceNew(card.title)) ELSE "N/A"

CardCompany(card) ==
    IF card.company # NoElem THEN card.company ELSE "N/A"

CardLocation(card) ==
    IF card.location # NoElem THEN card.location ELSE "N/A"

\* mutant of HasValidData: `or` in place of `and`
HasValidData_Either(title, company) == title # "N/A" \/ company # "N/A"

\* `if title != "N/A" and company != "N/A"`
HasValidData(title, company) == title # "N/A" /\ company # "N/A"

MakeJob(title, company, location, day) ==
    [ JobTitle    |-> title,
      CompanyName |-> company,
      Location    |-> location,
      Platform    |-> "Indeed",
      CompanyType |-> InferCompanyType(company),
      Status      |-> "Not Applied",
      DateAdded   |-> DateOf(day) ]

\* One iteration of the loop over job_cards: the rows it appends to jobs.
ParseCard(card, day) ==
    IF card.raises THEN << >>
    ELSE LET title == CardTitle(card)
             company == CardCompany(card)
             location == CardLocation(card)
         IN IF HasValidData(title, company)
            THEN << MakeJob(title, company, location, day) >>
            ELSE << >>

\* the loop over job_cards: found[i] is the list jobs after i cards
ParseJobCards(cards, day) ==
    LET found[i \in 0..Len(cards)] ==
            IF i = 0 THEN << >> ELSE found[i - 1] \o ParseCard(cards[i], day)
    IN found[Len(cards)]

(***************************************************************************)
(* pandas: read_csv, concat, drop_duplicates, to_csv.                      *)
(*                                                                         *)
(* read_csv turns every cell whose text is one of its default NA markers   *)
(* into NaN; to_csv writes NaN as the empty text (na_rep='').  The texts   *)
(* of the model hold no number, so no column is read back as numeric.      *)
(***************************************************************************)
NAValues ==
    { "", "#N/A", "#N/A N/A", "#NA", "-1.#IND", "-1.#QNAN", "-NaN", "-nan",
      "1.#IND", "1.#QNAN", "<NA>", "N/A", "NA", "NULL", "NaN", "None",
      "n/a", "nan", "null" }

Columns ==
    { "JobTitle", "CompanyName", "Location", "Platform", "CompanyType",
      "Status", "DateAdded" }

ReadCell(text) == IF text \in NAValues THEN NaN ELSE text

WriteCell(value) == IF value = NaN THEN "" ELSE value

ReadRow(row) == [c \in Columns |-> ReadCell(row[c])]

WriteRowText(row) == [c \in Columns |-> WriteCell(row[c])]

\* pd.read_csv on the rows below the header of a well-formed file
ReadCsv(rows) == [i \in 1..Len(rows) |-> ReadRow(rows[i])]

\* the lines df.to_csv(index=False) writes below the header
ToCsv(df) == [i \in 1..Len(df) |-> WriteRowText(df[i])]

\* the file's content
Absent == [kind |-> "absent", rows |-> << >>]
EmptyFile == [kind |-> "empty", rows |-> << >>]
CorruptFile == [kind |-> "corrupt", rows |-> << >>]
CsvFile(rows) == [kind |-> "rows", rows |-> rows]

Exists(f) == f.kind # "absent"
Parseable(f) == f.kind = "rows"

KeyOf(row) == << row.JobTitle, row.CompanyName >>

\* keep='first': row i stays when no row before it has its key
IsFirst(df, i) == \A j \in 1..(i - 1) : KeyOf(df[j]) # KeyOf(df[i])

\* df.drop_duplicates(subset=['Job Title', 'Company Name'], keep='first')
DropDuplicates(df) ==
    LET kept[i \in 0..Len(df)] ==
            IF i = 0 THEN << >>
            ELSE IF IsFirst(df, i) THEN Append(kept[i - 1], df[i])
            ELSE kept[i - 1]
    IN kept[Len(df)]

\* the existing-file branch of save_to_csv: concat, then drop_duplicates
Combine(df_existing, df_new) == DropDuplicates(df_existing \o df_new)

\* the frame save_to_csv writes, given the file it finds and the scraped jobs
FinalFrame(f, df_new) ==
    IF Exists(f) THEN Combine(ReadCsv(f.rows), df_new) ELSE df_new

\* load_jobs of app.py: the frame the dashboard shows for a file content
LoadJobs(f) == IF Exists(f) /\ Parseable(f) THEN ReadCsv(f.rows) ELSE << >>

(***************************************************************************)
(* The pages a request can return.  Three kinds of card: one with every    *)
(* field, one with a "new" badge in the title and no location element,     *)
(* one with no title element.                                              *)
(***************************************************************************)
CardFull(i) == Card("Data Analyst " \o ToString(i), "Acme Analytics Pvt Ltd", "Pune", FALSE)
CardNoLocation == Card("newBI Analyst", "TCS", NoElem, FALSE)
CardNoTitle == Card(NoElem, "Acme Analytics Pvt Ltd", "Pune", FALSE)

FullPage(n) == [i \in 1..n |-> CardFull(i)]

\* pages of fewer than PageSize cards
ShortPages ==
    { << CardFull(1) >>,
      << CardNoLocation >>,
      << CardNoTitle >> }

\* pages of PageSize cards, of which all or all but one give a job
LongPages ==
    { FullPage(PageSize),
      FullPage(PageSize - 1) \o << CardNoTitle >> }

Pages == ShortPages \cup LongPages

\* the pages of one whole run: a page of PageSize cards, and a short page
\* with a card whose handling raises inside the try block
CardRaises == Card("Data Analyst 1", "Acme Analytics Pvt Ltd", "Pune", TRUE)
RunPages == { FullPage(PageSize), << CardRaises, CardNoLocation >> }

\* _parse_job_cards on each page and day, tabulated
Days == 1..(MaxRuns + 1)
PageJobsTable ==
    { << cards, d, ParseJobCards(cards, d) >> : cards \in Pages \cup RunPages, d \in Days }
PageJobs(cards, d) ==
    (CHOOSE t \in PageJobsTable : t[1] = cards /\ t[2] = d)[3]

(***************************************************************************)
(* The cards a direct call of _parse_job_cards is given: every combination *)
(* of a missing element, a text and the text "N/A" for title and company,  *)
(* a title that is only a "new" badge, a missing or present location, and  *)
(* a card whose handling raises.                                           *)
(***************************************************************************)
ParseTitles == { NoElem, "Data Analyst", "new", "N/A" }
ParseCompanies == { NoElem, "TCS", "N/A" }
ParseLocations == { NoElem, "Pune" }

ParseCards ==
    { Card(t, c, l, r) : t \in ParseTitles, c \in ParseCompanies,
                         l \in ParseLocations, r \in BOOLEAN }

ParseInputs == UNION { [1..n -> ParseCards] : n \in 0..MaxParseCards }

(***************************************************************************)
(* Company names _infer_company_type is called on: a name as the site      *)
(* shows it, followed by the first n characters of a legal-form suffix, so *)
(* that names with and without a keyword fall on both sides of             *)
(* StartupNameLen.                                                         *)
(***************************************************************************)
NameStems ==
    { "", "TCS", "Ey", "IBM", "hcl", "Infosys", "Tech Mahindra",
      "Tech  Mahindra", "Honeywell", "Zoho", "Acme", "Freshworks",
      "Teach For All" }

NameSuffix == " Labs India Pvt Limited"

CompanyNames ==
    { stem \o SubSeq(NameSuffix, 1, n) : stem \in NameStems, n \in 0..MaxSuffix }

(***************************************************************************)
(* State.                                                                  *)
(*   site       the result pages the job site can answer a request with    *)
(*   file       content of tracker.csv                                     *)
(*   pc         where the scraper process is: "idle" (no run), "search"    *)
(*              (in the loops of search_jobs), "main" (search_jobs has     *)
(*              returned), "save" (save_to_csv is about to call to_csv),   *)
(*              "write" (to_csv has opened the file); "parse" and          *)
(*              "parsed" around a direct call of _parse_job_cards          *)
(*   runs       runs started so far                                        *)
(*   today      the day number datetime.now() falls on                     *)
(*   q, page    the loop variables of search_jobs                          *)
(*   jobs       the list search_jobs accumulates                           *)
(*   last       the latest loop iteration of this search: the query and    *)
(*              page it requested, its outcome, the numbers of cards found *)
(*              and of jobs parsed                                         *)
(*   requested  the (query, page) pairs this search has requested, in the  *)
(*              order of the requests                                      *)
(*   stopped    the (query, page) pairs of this search whose response held *)
(*              fewer than PageSize cards                                  *)
(*   delayDue   what is left to sleep of the rate-limit delay owed since   *)
(*              the latest 2xx response of this run                        *)
(*   df_final   the frame save_to_csv writes                               *)
(*   written    rows of df_final that have reached the file                *)
(*   result     how the latest run ended                                   *)
(*   added      << new_jobs_count >> when the run printed it, else << >>   *)
(*   file0      content of tracker.csv when the run started                *)
(*   view       the frame the latest load_jobs returned; whether it ran    *)
(*              while to_csv had the file open; and, if so, the frames of  *)
(*              the file as it was before the run and as the run leaves it *)
(*   job_cards, page_jobs   argument and result of a direct call of        *)
(*              _parse_job_cards                                           *)
(*   company_arg, company_type   argument and result of a direct call of   *)
(*              _infer_company_type                                        *)
(*   scraper_status, scraper_process   the two keys of st.session_state    *)
(*              that app.py decides on; scraper_process is the number of   *)
(*              a subprocess or None                                       *)
(*   processes  the subprocesses this session has started, in the order of *)
(*              their Popen: whether each is alive, and its returncode     *)
(*   threads    where the monitor thread of each subprocess is:            *)
(*              "communicate", "status" (about to assign scraper_status),  *)
(*              "process" (about to assign scraper_process), "done"        *)
(*   shown      the scraper_status the page in the browser was rendered    *)
(*              from, which decides the buttons the user can click         *)
(***************************************************************************)
VARIABLES site, file, pc, runs, today, q, page, jobs, last, requested,
          stopped, delayDue, df_final, written, result, added, file0, view,
          job_cards, page_jobs, company_arg, company_type,
          scraper_status, scraper_process, processes, threads, shown

vars == << site, file, pc, runs, today, q, page, jobs, last, requested,
           stopped, delayDue, df_final, written, result, added, file0, view,
           job_cards, page_jobs, company_arg, company_type,
           scraper_status, scraper_process, processes, threads, shown >>

searchVars == << q, page, jobs, last, requested, stopped, delayDue >>
saveVars == << df_final, written, added >>
parseVars == << job_cards, page_jobs >>
classifyVars == << company_arg, company_type >>
dashVars == << scraper_status, scraper_process, processes, threads, shown >>
envVars == << site, runs, today, file0, view, parseVars, classifyVars, dashVars >>

\* st.session_state as main() of app.py initialises it, and no subprocess
None == 0
InitDash ==
    /\ scraper_status = "idle"
    /\ scraper_process = None
    /\ processes = << >>
    /\ threads = << >>
    /\ shown = "idle"

NoIteration == [q |-> 0, page |-> 0, outcome |-> "none", ncards |-> 0, njobs |-> 0]
NoView == [df |-> << >>, during |-> FALSE, old |-> << >>, new |-> << >>]

InitRest ==
    /\ file = Absent
    /\ runs = 0
    /\ today = 1
    /\ q = 1
    /\ page = 0
    /\ jobs = << >>
    /\ last = NoIteration
    /\ requested = << >>
    /\ stopped = { }
    /\ delayDue = 0
    /\ df_final = << >>
    /\ written = 0
    /\ result = "none"
    /\ added = << >>
    /\ file0 = Absent
    /\ view = NoView
    /\ page_jobs = << >>
    /\ company_type = ""
    /\ InitDash

\* the pipeline, run after run, against a site of short pages
Init ==
    /\ site = ShortPages
    /\ pc = "idle"
    /\ job_cards = << >>
    /\ company_arg = ""
    /\ InitRest

\* one search against a site that also has pages of PageSize cards
InitSearch ==
    /\ site = Pages
    /\ pc = "idle"
    /\ job_cards = << >>
    /\ company_arg = ""
    /\ InitRest

\* tracker.csv as one run may find it: absent, unparseable, or holding a
\* row of an earlier day
RunFiles ==
    { Absent, CorruptFile,
      CsvFile(ToCsv(<< MakeJob("BI Analyst", "TCS", "Pune", 1) >>)) }

\* the last run of the pipeline, against a site of full and of short pages
InitRun ==
    /\ site = RunPages
    /\ pc = "idle"
    /\ job_cards = << >>
    /\ company_arg = ""
    /\ file \in RunFiles
    /\ runs = MaxRuns - 1
    /\ today = 1
    /\ q = 1
    /\ page = 0
    /\ jobs = << >>
    /\ last = NoIteration
    /\ requested = << >>
    /\ stopped = { }
    /\ delayDue = 0
    /\ df_final = << >>
    /\ written = 0
    /\ result = "none"
    /\ added = << >>
    /\ file0 = file
    /\ view = NoView
    /\ page_jobs = << >>
    /\ company_type = ""
    /\ InitDash

\* a direct call of _parse_job_cards on any short list of cards
InitParse ==
    /\ site = { }
    /\ pc = "parse"
    /\ job_cards \in ParseInputs
    /\ company_arg = ""
    /\ InitRest

\* a direct call of _infer_company_type on any of the company names
InitClassify ==
    /\ site = { }
    /\ pc = "classify"
    /\ job_cards = << >>
    /\ company_arg \in CompanyNames
    /\ InitRest

(***************************************************************************)
(* main() up to the call of search_jobs: a run starts, today or on a later *)
(* day than the run before.                                                *)
(***************************************************************************)
StartRun ==
    /\ pc = "idle"
    /\ runs < MaxRuns
    /\ \E d \in { today, today + 1 } : today' = d
    /\ runs' = runs + 1
    /\ pc' = "search"
    /\ q' = 1
    /\ page' = 0
    /\ jobs' = << >>
    /\ last' = NoIteration
    /\ requested' = << >>
    /\ stopped' = { }
    /\ delayDue' = 0
    /\ result' = "running"
    /\ added' = << >>
    /\ file0' = file
    /\ UNCHANGED << site, file, df_final, written, view, parseVars,
                    classifyVars, dashVars >>

(***************************************************************************)
(* search_jobs: one iteration of `for page in range(max_pages)` inside     *)
(* `for search_query in search_queries`.  brk says whether the iteration   *)
(* left the inner loop by break; otherwise it ended normally or by         *)
(* continue.                                                               *)
(***************************************************************************)
LoopNext(brk) ==
    IF ~brk /\ page + 1 < MaxPages
    THEN /\ page' = page + 1
         /\ UNCHANGED << q, pc >>
    ELSE IF q < NumQueries
    THEN /\ q' = q + 1
         /\ page' = 0
         /\ UNCHANGED pc
    ELSE /\ pc' = "main"
         /\ UNCHANGED << q, page >>

\* session.get(url, params) of the iteration, with what came of it
Iteration(outcome, ncards, njobs) ==
    /\ requested' = Append(requested, << q, page >>)
    /\ last' = [q |-> q, page |-> page, outcome |-> outcome,
                ncards |-> ncards, njobs |-> njobs]
    /\ stopped' = IF outcome \in { "empty", "cards" } /\ ncards < PageSize
                  THEN stopped \cup { << q, page >> }
                  ELSE stopped

\* time.sleep(seconds) when `due` is still owed
Sleep(due, seconds) == IF due > seconds THEN due - seconds ELSE 0

\* mutant of FetchFail: the handler leaves the page loop instead of going on
FetchFail_Breaks ==
    /\ pc = "search"
    /\ Iteration("fail", 0, 0)
    /\ LoopNext(TRUE)
    /\ UNCHANGED << jobs, delayDue >>
    /\ UNCHANGED << file, saveVars, result, envVars >>

\* session.get or raise_for_status raises RequestException: print, continue
FetchFail ==
    /\ pc = "search"
    /\ Iteration("fail", 0, 0)
    /\ LoopNext(FALSE)
    /\ UNCHANGED << jobs, delayDue >>
    /\ UNCHANGED << file, saveVars, result, envVars >>

\* mutant of PageError: the exception is not handled and ends the process
PageError_Crashes ==
    /\ pc = "search"
    /\ Iteration("error", 0, 0)
    /\ delayDue' = RateLimitDelay
    /\ pc' = "idle"
    /\ result' = "error"
    /\ UNCHANGED << q, page, jobs >>
    /\ UNCHANGED << file, saveVars, envVars >>

\* a 2xx response whose handling raises another Exception: print, continue
PageError ==
    /\ pc = "search"
    /\ Iteration("error", 0, 0)
    /\ delayDue' = RateLimitDelay
    /\ LoopNext(FALSE)
    /\ UNCHANGED jobs
    /\ UNCHANGED << file, saveVars, result, envVars >>

\* a 2xx response in which no selector finds a card: print, break
PageEmpty ==
    /\ pc = "search"
    /\ Iteration("empty", 0, 0)
    /\ delayDue' = RateLimitDelay
    /\ LoopNext(TRUE)
    /\ UNCHANGED jobs
    /\ UNCHANGED << file, saveVars, result, envVars >>

\* mutant of LastPage: the break on a short page is missing
LastPage_Never(parsed) == FALSE

\* the condition of the break after the sleep
LastPage(parsed) == Len(parsed) < PageSize

\* a 2xx response with cards: parse, extend, sleep, break on a short page
PageCards ==
    /\ pc = "search"
    /\ \E cards \in site :
         LET parsed == PageJobs(cards, today)
         IN /\ Iteration("cards", Len(cards), Len(parsed))
            /\ jobs' = jobs \o parsed
            /\ delayDue' = Sleep(RateLimitDelay, RateLimitDelay)
            /\ LoopNext(LastPage(parsed))
    /\ UNCHANGED << file, saveVars, result, envVars >>

(***************************************************************************)
(* main() after search_jobs has returned.                                  *)
(***************************************************************************)
\* the locals of search_jobs are gone once main goes on with the list
SearchReturned ==
    /\ q' = 1
    /\ page' = 0
    /\ last' = NoIteration
    /\ requested' = << >>
    /\ stopped' = { }
    /\ delayDue' = 0
    /\ UNCHANGED jobs

\* mutant of MainNoJobs: main calls save_to_csv whatever the list, and
\* to_csv writes the header of an empty frame
MainNoJobs_Saves ==
    /\ pc = "main"
    /\ jobs = << >>
    /\ pc' = "idle"
    /\ result' = "saved"
    /\ file' = CsvFile(<< >>)
    /\ SearchReturned
    /\ UNCHANGED << saveVars, envVars >>

\* `if jobs:` fails: the warning is printed and the process exits normally
MainNoJobs ==
    /\ pc = "main"
    /\ jobs = << >>
    /\ pc' = "idle"
    /\ result' = "nojobs"
    /\ SearchReturned
    /\ UNCHANGED << file, saveVars, envVars >>

(***************************************************************************)
(* save_to_csv up to the call of to_csv (the early return on an empty list *)
(* is never taken from main, which tests `if jobs:` first).                *)
(***************************************************************************)
NewJobsCount(f, df_combined) == Len(df_combined) - Len(ReadCsv(f.rows))

\* os.path.exists is false: df_final = df_new
SaveNewFile ==
    /\ pc = "main"
    /\ jobs # << >>
    /\ ~Exists(file)
    /\ df_final' = FinalFrame(file, jobs)
    /\ added' = << >>
    /\ written' = 0
    /\ pc' = "save"
    /\ SearchReturned
    /\ UNCHANGED << file, result, envVars >>

\* the file exists and read_csv parses it: concat, drop_duplicates, count
SaveMerge ==
    /\ pc = "main"
    /\ jobs # << >>
    /\ Exists(file)
    /\ Parseable(file)
    /\ df_final' = FinalFrame(file, jobs)
    /\ added' = << NewJobsCount(file, FinalFrame(file, jobs)) >>
    /\ written' = 0
    /\ pc' = "save"
    /\ SearchReturned
    /\ UNCHANGED << file, result, envVars >>

\* mutant of SaveReadError: the exception of read_csv is swallowed, as
\* load_jobs does, and the scraped rows replace the file
SaveReadError_Swallowed ==
    /\ pc = "main"
    /\ jobs # << >>
    /\ Exists(file)
    /\ ~Parseable(file)
    /\ df_final' = jobs
    /\ added' = << >>
    /\ written' = 0
    /\ pc' = "save"
    /\ SearchReturned
    /\ UNCHANGED << file, result, envVars >>

\* the file exists and read_csv raises: the exception leaves save_to_csv and
\* main, and the process exits with a traceback and a non-zero code
SaveReadError ==
    /\ pc = "main"
    /\ jobs # << >>
    /\ Exists(file)
    /\ ~Parseable(file)
    /\ pc' = "idle"
    /\ result' = "error"
    /\ SearchReturned
    /\ UNCHANGED << file, saveVars, envVars >>

(***************************************************************************)
(* df_final.to_csv(filename, index=False): the file is opened for writing, *)
(* which truncates it in place; header and rows reach the file as the      *)
(* write buffer is flushed, some rows at a time; then the file is closed   *)
(* and main prints the success line.  The model lets the buffer reach the  *)
(* file after the first row and at the end.                                *)
(***************************************************************************)
FlushPoints(df) == { 1, Len(df) }

ToCsvOpen ==
    /\ pc = "save"
    /\ file' = EmptyFile
    /\ written' = 0
    /\ pc' = "write"
    /\ UNCHANGED << searchVars, df_final, added, result, envVars >>

ToCsvFlush ==
    /\ pc = "write"
    /\ written < Len(df_final)
    /\ \E n \in FlushPoints(df_final) :
         /\ n > written
         /\ file' = CsvFile(ToCsv(SubSeq(df_final, 1, n)))
         /\ written' = n
    /\ UNCHANGED << pc, searchVars, df_final, added, result, envVars >>

ToCsvClose ==
    /\ pc = "write"
    /\ written = Len(df_final)
    /\ pc' = "idle"
    /\ result' = "saved"
    /\ df_final' = << >>
    /\ written' = 0
    /\ UNCHANGED << file, searchVars, added, envVars >>

(***************************************************************************)
(* The user, between runs: marks one of the first rows of the tracker as   *)
(* applied, or damages the file.                                           *)
(***************************************************************************)
EditStatus ==
    /\ pc = "idle"
    /\ Parseable(file)
    /\ \E i \in 1..MaxEditRow :
         /\ i <= Len(file.rows)
         /\ file.rows[i].Status = "Not Applied"
         /\ file' = CsvFile([file.rows EXCEPT ![i].Status = "Applied"])
    /\ UNCHANGED << pc, searchVars, saveVars, result, envVars >>

DamageFile ==
    /\ pc = "idle"
    /\ Parseable(file)
    /\ runs < MaxRuns
    /\ file' = CorruptFile
    /\ UNCHANGED << pc, searchVars, saveVars, result, envVars >>

Next ==
    \/ StartRun
    \/ FetchFail
    \/ PageError
    \/ PageEmpty
    \/ PageCards
    \/ MainNoJobs
    \/ SaveNewFile
    \/ SaveMerge
    \/ SaveReadError
    \/ ToCsvOpen
    \/ ToCsvFlush
    \/ ToCsvClose
    \/ EditStatus
    \/ DamageFile

Spec == Init /\ [][Next]_vars

(***************************************************************************)
(* One search against the larger site.                                     *)
(***************************************************************************)
NextSearch ==
    \/ StartRun
    \/ FetchFail
    \/ PageError
    \/ PageEmpty
    \/ PageCards

SpecSearch == InitSearch /\ [][NextSearch]_vars

(***************************************************************************)
(* The dashboard beside the pipeline: a rerun of app.py calls load_jobs at *)
(* any moment.                                                             *)
(***************************************************************************)
LoadJobsCall ==
    /\ view' = IF pc = "write"
               THEN [df |-> LoadJobs(file), during |-> TRUE,
                     old |-> LoadJobs(file0),
                     new |-> LoadJobs(CsvFile(ToCsv(df_final)))]
               ELSE [df |-> LoadJobs(file), during |-> FALSE,
                     old |-> << >>, new |-> << >>]
    /\ UNCHANGED << site, file, pc, runs, today, searchVars, saveVars, result,
                    file0, parseVars, classifyVars, dashVars >>

NextReader ==
    \/ Next
    \/ LoadJobsCall

SpecReader == Init /\ [][NextReader]_vars

(***************************************************************************)
(* A direct call of _parse_job_cards.                                      *)
(***************************************************************************)
ParseCall ==
    /\ pc = "parse"
    /\ page_jobs' = ParseJobCards(job_cards, today)
    /\ pc' = "parsed"
    /\ UNCHANGED << site, file, runs, today, searchVars, saveVars, result,
                    file0, view, job_cards, classifyVars, dashVars >>

NextParse == ParseCall

SpecParse == InitParse /\ [][NextParse]_vars

(***************************************************************************)
(* One run from start to end.  The scraper is one sequential process: each *)
(* request returns or times out, each sleep ends, and each statement is    *)
(* followed by the next, so a step of the run that is enabled is taken.    *)
(***************************************************************************)
NextRun ==
    \/ StartRun
    \/ FetchFail
    \/ PageError
    \/ PageEmpty
    \/ PageCards
    \/ MainNoJobs
    \/ SaveNewFile
    \/ SaveMerge
    \/ SaveReadError
    \/ ToCsvOpen
    \/ ToCsvFlush
    \/ ToCsvClose

SpecRun == InitRun /\ [][NextRun]_vars /\ WF_vars(NextRun)

(***************************************************************************)
(* A direct call of _infer_company_type.                                   *)
(***************************************************************************)
ClassifyCall ==
    /\ pc = "classify"
    /\ company_type' = InferCompanyType(company_arg)
    /\ pc' = "classified"
    /\ UNCHANGED << site, file, runs, today, searchVars, saveVars, result,
                    file0, view, parseVars, company_arg, dashVars >>

NextClassify == ClassifyCall

SpecClassify == InitClassify /\ [][NextClassify]_vars

(***************************************************************************)
(* The dashboard session (app.py).  The script runs from top to bottom on  *)
(* every rerun; run_scraper_background starts scraper.py with Popen and a  *)
(* monitor thread that waits in process.communicate() and then assigns to  *)
(* st.session_state, beside the script.  processes[p] is the returncode of *)
(* subprocess p, NotExited while poll() returns None.                      *)
(***************************************************************************)
NotExited == -1

restVars ==
    << site, file, pc, runs, today, searchVars, saveVars, result, file0, view,
       parseVars, classifyVars >>

\* 'completed' if return_code == 0 else 'failed'
StatusOf(return_code) == IF return_code = 0 THEN "completed" ELSE "failed"

\* check_scraper_status: scraper_status and scraper_process as it leaves them
CheckScraperStatus(status, process) ==
    IF process # None /\ processes[process] # NotExited
    THEN << StatusOf(processes[process]), None >>
    ELSE << status, process >>

\* disabled=(st.session_state['scraper_status'] == 'running'), as rendered
RunButtonDisabled == shown = "running"

\* a rerun on "Refresh Data" or on any other widget: check_scraper_status, then
\* the page is rendered
RerunScript ==
    LET checked == CheckScraperStatus(scraper_status, scraper_process)
    IN /\ scraper_status' = checked[1]
       /\ scraper_process' = checked[2]
       /\ shown' = checked[1]
       /\ UNCHANGED << processes, threads, restVars >>

\* a click on a button that sets scraper_status to 'idle' and calls
\* st.rerun(): the button is on the page when the page shows `on`, and the
\* script reaches it when scraper_status is `on` after check_scraper_status
ResetClick(on) ==
    LET checked == CheckScraperStatus(scraper_status, scraper_process)
        again == CheckScraperStatus("idle", checked[2])
    IN /\ shown = on
       /\ checked[1] = on
       /\ scraper_status' = again[1]
       /\ scraper_process' = again[2]
       /\ shown' = again[1]
       /\ UNCHANGED << processes, threads, restVars >>

\* "Refresh Data" with key refresh_after_scrape
ClickRefreshAfterScrape == ResetClick("completed")

\* "Clear Error"
ClickClearError == ResetClick("failed")

\* "Run Scraper": check_scraper_status, run_scraper_background, st.rerun().
\* Popen either starts a subprocess, which is stored and given a monitor
\* thread, or raises, and the handler sets 'failed'.
ClickRunScraper ==
    /\ ~RunButtonDisabled
    /\ \/ /\ Len(processes) < MaxStarts
          /\ processes' = Append(processes, NotExited)
          /\ threads' = Append(threads, "communicate")
          /\ scraper_status' = "running"
          /\ scraper_process' = Len(processes) + 1
          /\ shown' = "running"
       \/ /\ scraper_status' = "failed"
          /\ scraper_process' = None
          /\ shown' = "failed"
          /\ UNCHANGED << processes, threads >>
    /\ UNCHANGED restVars

\* scraper.py ends, with exit status 0 or 1
ProcessExit ==
    /\ \E p \in 1..Len(processes) :
         /\ processes[p] = NotExited
         /\ \E return_code \in { 0, 1 } :
              processes' = [processes EXCEPT ![p] = return_code]
    /\ UNCHANGED << scraper_status, scraper_process, threads, shown, restVars >>

\* monitor_process: process.communicate() returns once the process ended
MonitorReturn ==
    /\ \E p \in 1..Len(threads) :
         /\ threads[p] = "communicate"
         /\ processes[p] # NotExited
         /\ threads' = [threads EXCEPT ![p] = "status"]
    /\ UNCHANGED << scraper_status, scraper_process, processes, shown, restVars >>

\* monitor_process: st.session_state['scraper_status'] = ...
MonitorSetStatus ==
    /\ \E p \in 1..Len(threads) :
         /\ threads[p] = "status"
         /\ scraper_status' = StatusOf(processes[p])
         /\ threads' = [threads EXCEPT ![p] = "process"]
    /\ UNCHANGED << scraper_process, processes, shown, restVars >>

\* monitor_process: st.session_state['scraper_process'] = None
MonitorClearProcess ==
    /\ \E p \in 1..Len(threads) :
         /\ threads[p] = "process"
         /\ scraper_process' = None
         /\ threads' = [threads EXCEPT ![p] = "done"]
    /\ UNCHANGED << scraper_status, processes, shown, restVars >>

NextDash ==
    \/ RerunScript
    \/ ClickRefreshAfterScrape
    \/ ClickClearError
    \/ ClickRunScraper
    \/ ProcessExit
    \/ MonitorReturn
    \/ MonitorSetStatus
    \/ MonitorClearProcess

SpecDash == Init /\ [][NextDash]_vars

(***************************************************************************)
(* Properties of the pipeline (Spec).                                      *)
(***************************************************************************)
\* to_csv has written every row of df_final and is about to close the file
WriteDone == pc = "write" /\ written = Len(df_final)

Count(rows, r) == Cardinality({ i \in 1..Len(rows) : rows[i] = r })

\* the same rows, whatever their order
SameContent(a, b) ==
    /\ Len(a) = Len(b)
    /\ \A i \in 1..Len(a) : Count(a, a[i]) = Count(b, a[i])

Scraped(key) == \E k \in 1..Len(jobs) : KeyOf(jobs[k]) = key

\* C1: when a run has merged into an existing tracker, every row the
\* tracker held before the run whose (Job Title, Company Name) was scraped
\* again is still in the tracker, with every field as it was stored.
C1_StoredRowsKept ==
    (WriteDone /\ Parseable(file0)) =>
        \A i \in 1..Len(file0.rows) :
            Scraped(KeyOf(file0.rows[i])) =>
                \E j \in 1..Len(file.rows) : file.rows[j] = file0.rows[i]

\* C2: between runs, no two rows of the tracker have the same
\* (Job Title, Company Name), the tracker having been absent at first.
C2_UniqueKeys ==
    (pc = "idle" /\ Parseable(file)) =>
        \A i, j \in 1..Len(file.rows) :
            i # j => KeyOf(file.rows[i]) # KeyOf(file.rows[j])

\* C3: a run that scrapes exactly the rows the tracker already holds leaves
\* the tracker with the same rows and reports 0 added.
C3_Idempotent ==
    (WriteDone /\ Parseable(file0) /\ SameContent(jobs, file0.rows)) =>
        /\ SameContent(file.rows, file0.rows)
        /\ added = << 0 >>

\* C7: a run whose search returns no record ends without an error and
\* leaves tracker.csv as it was when the run started.
C7_NoJobsNoWrite ==
    [][(pc = "main" /\ jobs = << >>) =>
          /\ file' = file
          /\ file' = file0
          /\ pc' = "idle"
          /\ result' = "nojobs"]_vars

\* C7 witness: a run has ended with no record while a tracker existed
C7_Witness ==
    /\ pc = "idle"
    /\ result = "nojobs"
    /\ Exists(file0)
    /\ file = file0

\* C9 as stated: whenever the run finds tracker.csv present and
\* unparseable, it ends in a failure and leaves the file as it was.
C9_Original ==
    [][(pc = "main" /\ Exists(file) /\ ~Parseable(file)) =>
          /\ result' = "error"
          /\ file' = file]_vars

\* C9 amended: a run that finds tracker.csv present and unparseable never
\* merges and never writes the file; it ends in a failure when it has
\* scraped a record, and with the no-jobs warning when it has scraped none.
C9_UnparseableStore ==
    [][(pc = "main" /\ Exists(file) /\ ~Parseable(file)) =>
          /\ file' = file
          /\ file' = file0
          /\ df_final' = df_final
          /\ pc' = "idle"
          /\ result' = IF jobs # << >> THEN "error" ELSE "nojobs"]_vars

\* C9 witness: a run with records has failed on an unparseable tracker
C9_Witness ==
    /\ pc = "idle"
    /\ result = "error"
    /\ jobs # << >>
    /\ file = CorruptFile
    /\ file0 = CorruptFile

(***************************************************************************)
(* Properties of one search (SpecSearch).                                  *)
(***************************************************************************)
\* a step in which search_jobs issues a request
IsRequest == Len(requested') = Len(requested) + 1

\* where the loops stand once the page loop of query a is over
AfterQuery(a) ==
    IF a < NumQueries THEN pc = "search" /\ q = a + 1 /\ page = 0
    ELSE pc = "main"

\* C4: once a response of a query has held no card, or fewer than PageSize
\* cards, no page of that query with a higher index is requested, and the
\* search goes on with the next query.
C4_ShortPageStops ==
    /\ \A s \in stopped : \A i \in 1..Len(requested) :
           requested[i][1] = s[1] => requested[i][2] <= s[2]
    /\ (last.outcome \in { "empty", "cards" } /\ last.ncards < PageSize) =>
           AfterQuery(last.q)

\* C4 witness: page 0 of query 1 was short, a later page of query 1 could
\* have been asked for, and the search is past a short page with cards of
\* query 2
C4_Witness ==
    /\ << 1, 0 >> \in stopped
    /\ 1 < MaxPages
    /\ last.q = 2
    /\ last.outcome = "cards"
    /\ last.ncards > 0
    /\ last.ncards < PageSize
    /\ requested = << << 1, 0 >>, << 2, 0 >> >>

\* C5: a failed fetch of page p neither ends the search nor is retried: the
\* list of jobs is kept, the loops stand at page p+1 of the same query (at
\* the next query, or at the end, when p was the last page), every request
\* is for the pair the loops stand at, and no pair is requested twice.
C5_FailureSkipsPage ==
    /\ [](\A i, j \in 1..Len(requested) : i # j => requested[i] # requested[j])
    /\ [][IsRequest => requested' = Append(requested, << q, page >>)]_vars
    /\ [][(IsRequest /\ last'.outcome = "fail") =>
             /\ jobs' = jobs
             /\ result' = "running"
             /\ IF page + 1 < MaxPages
                THEN pc' = "search" /\ q' = q /\ page' = page + 1
                ELSE IF q < NumQueries
                THEN pc' = "search" /\ q' = q + 1 /\ page' = 0
                ELSE pc' = "main"]_vars

\* C5 witness: page 0 of query 2 has failed with jobs already in the list,
\* and the loops stand at page 1 of query 2
C5_Witness ==
    /\ last.outcome = "fail"
    /\ last.q = 2
    /\ last.page = 0
    /\ jobs # << >>
    /\ pc = "search"
    /\ q = 2
    /\ page = 1

\* C6: no request is issued while the rate-limit delay owed since the
\* latest 2xx response of the run has not been slept.
C6_DelayBeforeRequest == [][IsRequest => delayDue = 0]_vars

(***************************************************************************)
(* Properties of the dashboard beside the pipeline (SpecReader).           *)
(***************************************************************************)
\* C8: a load_jobs that runs while to_csv has the file open returns either
\* the whole tracker as it was before the run or the whole merged tracker.
C8_ReaderSeesWholeStore ==
    view.during => (view.df = view.old \/ view.df = view.new)

(***************************************************************************)
(* Properties of _parse_job_cards (SpecParse).                             *)
(***************************************************************************)
\* the cards that do not raise and whose title and company are both resolved
Emitting(cards) ==
    { i \in 1..Len(cards) :
        /\ ~cards[i].raises
        /\ CardTitle(cards[i]) # "N/A"
        /\ CardCompany(cards[i]) # "N/A" }

\* the k-th of them, in the order of the cards
NthEmitting(cards, k) ==
    CHOOSE i \in Emitting(cards) :
        Cardinality({ j \in Emitting(cards) : j <= i }) = k

\* C10: _parse_job_cards returns one job for each card that does not raise
\* and has both title and company resolved, in the order of the cards, and
\* none for any other card; the job of a card without location element has
\* Location "N/A"; no job has "N/A" as Job Title or Company Name.
C10_ValidCardsOnly ==
    pc = "parsed" =>
        /\ Len(page_jobs) = Cardinality(Emitting(job_cards))
        /\ \A k \in 1..Len(page_jobs) :
             LET card == job_cards[NthEmitting(job_cards, k)]
             IN /\ page_jobs[k].JobTitle = CardTitle(card)
                /\ page_jobs[k].CompanyName = CardCompany(card)
                /\ page_jobs[k].Location =
                       IF card.location = NoElem THEN "N/A" ELSE card.location
                /\ page_jobs[k].JobTitle # "N/A"
                /\ page_jobs[k].CompanyName # "N/A"

\* C10 witness: the first card raised, the second had title and company but
\* no location element, and its job alone was returned
C10_Witness ==
    /\ pc = "parsed"
    /\ Len(job_cards) = 2
    /\ job_cards[1].raises
    /\ ~job_cards[2].raises
    /\ job_cards[2].location = NoElem
    /\ Len(page_jobs) = 1
    /\ page_jobs[1].Location = "N/A"
    /\ page_jobs[1].JobTitle = "Data Analyst"

(***************************************************************************)
(* Properties of _infer_company_type (SpecClassify).                       *)
(***************************************************************************)
\* the keyword kw stands in the name at position i, letter case aside
KeywordAt(name, kw, i) ==
    /\ i + Len(kw) - 1 <= Len(name)
    /\ \A j \in 1..Len(kw) :
           LowerChar(SubSeq(name, i + j - 1, i + j - 1)) = SubSeq(kw, j, j)

HasMncKeyword(name) ==
    \E k \in 1..Len(mnc_keywords) :
        \E i \in 1..Len(name) : KeywordAt(name, mnc_keywords[k], i)

\* C11: _infer_company_type returns "MNC" for a name that holds a keyword
\* of the MNC list in any letter case, whatever the length of the name;
\* otherwise "Startup" for a name of fewer than 15 characters; otherwise
\* "Mid-size"; and never anything else.
C11_StrictPrecedence ==
    pc = "classified" =>
        /\ company_type \in { "MNC", "Startup", "Mid-size" }
        /\ company_type = "MNC" <=> HasMncKeyword(company_arg)
        /\ company_type = "Startup" <=>
               (~HasMncKeyword(company_arg) /\ Len(company_arg) < 15)
        /\ company_type = "Mid-size" <=>
               (~HasMncKeyword(company_arg) /\ Len(company_arg) >= 15)

\* a short name with a keyword has been classified "MNC"
C11_Witness ==
    /\ pc = "classified"
    /\ HasMncKeyword(company_arg)
    /\ Len(company_arg) < 15
    /\ company_type = "MNC"

(***************************************************************************)
(* Properties of one run (SpecRun).                                        *)
(***************************************************************************)
RunEnded == pc = "idle" /\ result # "none"

\* the run has printed what it saved, or that it scraped no job, or has
\* ended with the error of read_csv on an unparseable tracker
EndReported ==
    \/ result = "saved"
    \/ result = "nojobs" /\ jobs = << >>
    \/ result = "error" /\ Exists(file) /\ ~Parseable(file)

\* C12: a run issues at most NumQueries * MaxPages requests; whatever the
\* pages answer (fetch failure, page error, empty, short or full page, a
\* card that raises), the run ends; and it ends by the report of what it
\* saved, by the no-jobs warning, or by a failure - a failure that no page
\* and no card causes, only an unparseable tracker.
C12_RunTerminates ==
    /\ [](Len(requested) <= NumQueries * MaxPages)
    /\ [](RunEnded => EndReported)
    /\ (pc = "search" ~> RunEnded)

\* the search loop has ended after the whole budget of requests, the last
\* of them a page whose handling raised, with jobs to save
C12_Witness ==
    /\ pc = "main"
    /\ Len(requested) = NumQueries * MaxPages
    /\ last.outcome = "error"
    /\ \E k \in 1..Len(requested) : k < Len(requested) /\ requested[k] # << 1, 0 >>
    /\ jobs # << >>

(***************************************************************************)
(* Properties of the dashboard session (SpecDash).                         *)
(***************************************************************************)
AliveProcesses == { p \in 1..Len(processes) : processes[p] = NotExited }

====
